---- MODULE Spec2Model ----
(***************************************************************************)
(* Model of the batch dispatch and result ledger of src/backends/mod.rs:   *)
(* execute_command, BatchLingoCommand and BatchBuildResults (new,          *)
(* for_apps, print_results, append, map, par_map), and of the LFC backend  *)
(* of src/backends/lfc.rs (build, update, clean).                          *)
(***************************************************************************)
EXTENDS Integers, Sequences, FiniteSets, TLC

\* ------------------------------------------------------------------ bounds
\* Largest number of applications in one batch / entries in one ledger.
MaxApps == 3

\* ------------------------------------------------------------------- data
\* args::BuildSystem, as matched at mod.rs:25-29.
BuildSystem == {"LFC", "CMake", "Cargo"}

\* App names (package::App.name); the ledger sorts on them (mod.rs:126).
Names == <<"a", "b", "c">>

NameSet == {Names[i] : i \in 1..Len(Names)}

\* Position of a name in the lexicographic order of Names.
NameRank(n) == CHOOSE i \in 1..Len(Names) : Names[i] = n

\* An App: `id` stands for the identity of the referenced object (&'a App),
\* name and build_system() are the two things the engine reads from it.
App(i, n, bs) == [id |-> i, name |-> n, build_system |-> bs]

\* CommandSpec (mod.rs:55-62); Build carries its profile.
CommandSpec == {[op |-> "Build", profile |-> "Release"], [op |-> "Clean"]}

\* BuildResult = Result<(), Error>: Ok(()) or Err(e), e shown by its message.
Ok == [tag |-> "Ok"]

Err(e) == [tag |-> "Err", e |-> e]

ErrorMessages == {"missing source", "link failed"}

BuildResult == {Ok} \cup {Err(e) : e \in ErrorMessages}

IsOk(res) == res.tag = "Ok"

\* One element of BatchBuildResults.results: (&'a App, BuildResult).
Entry(app, res) == [app |-> app, res |-> res]

\* The applications a ledger refers to.
AppsOf(rs) == {rs[i].app : i \in 1..Len(rs)}

\* The lists of at most MaxApps distinct applications a caller can hand over.
AppLists ==
    UNION {{[i \in 1..n |-> App(i, nk[i][1], nk[i][2])] :
               nk \in [1..n -> NameSet \X BuildSystem]} : n \in 0..MaxApps}

\* Lists whose applications are all of the LFC kind, named a, b, c, a, ...
LfcAppLists ==
    {[i \in 1..n |-> App(i, Names[((i - 1) % Len(Names)) + 1], "LFC")] :
        n \in 0..MaxApps}

\* ------------------------------------------------------------ the ledger
\* BatchBuildResults::new
New == <<>>

\* Mutant of for_apps: the placeholders are collected back to front.
for_apps_Reversed(apps) ==
    [i \in 1..Len(apps) |-> Entry(apps[Len(apps) + 1 - i], Ok)]

\* BatchBuildResults::for_apps
for_apps(apps) == [i \in 1..Len(apps) |-> Entry(apps[i], Ok)]

\* BatchLingoCommand::new_results
new_results(cmd) == for_apps(cmd.apps)

\* Mutant of with_apps: the new command keeps the application list of self.
with_apps_KeepsApps(cmd, apps) == [apps |-> cmd.apps, task |-> cmd.task]

\* BatchLingoCommand::with_apps
with_apps(cmd, apps) == [apps |-> apps, task |-> cmd.task]

\* Mutant of MapClosure: the match on res is dropped, f runs for every entry.
MapClosure_NoMatch(fn, entry) ==
    [entry |-> Entry(entry.app, fn[entry.app]), called |-> 1]

\* Mutant of MapClosure: f is called but its result is not stored.
MapClosure_DropsResult(fn, entry) ==
    [entry |-> entry, called |-> IF IsOk(entry.res) THEN 1 ELSE 0]

\* The closure of map (mod.rs:144-149): the entry it leaves behind and how
\* often it called f.
MapClosure(fn, entry) ==
    IF IsOk(entry.res)
    THEN [entry |-> Entry(entry.app, fn[entry.app]), called |-> 1]
    ELSE [entry |-> entry, called |-> 0]

\* Mutant of Map: the failed entries are dropped from the ledger, as a retain
\* or filter_map would do.
Map_DropsFailed(fn, rs) ==
    LET kept == SelectSeq(rs, LAMBDA e : IsOk(e.res))
    IN  [results |-> [i \in 1..Len(kept) |-> MapClosure(fn, kept[i]).entry],
         calls   |-> [i \in 1..Len(rs) |-> MapClosure(fn, rs[i]).called]]

\* Mutant of Map: the iteration ends at the first failure f returns, as a
\* try_for_each would; the entries behind it are never visited.
Map_StopsAtFirstFailure(fn, rs) ==
    LET failing == {i \in 1..Len(rs) : IsOk(rs[i].res) /\ ~IsOk(fn[rs[i].app])}
        visited(i) == \A j \in failing : i <= j
    IN  [results |-> [i \in 1..Len(rs) |->
                         IF visited(i) THEN MapClosure(fn, rs[i]).entry ELSE rs[i]],
         calls   |-> [i \in 1..Len(rs) |->
                         IF visited(i) THEN MapClosure(fn, rs[i]).called ELSE 0]]

\* BatchBuildResults::map: iter_mut().for_each over the entries in order.
Map(fn, rs) ==
    [results |-> [i \in 1..Len(rs) |-> MapClosure(fn, rs[i]).entry],
     calls   |-> [i \in 1..Len(rs) |-> MapClosure(fn, rs[i]).called]]

\* Mutant of ParMapClosure: a failure returned by f is not stored.
ParMapClosure_DropsFailure(fn, entry) ==
    [entry |-> entry, called |-> IF IsOk(entry.res) THEN 1 ELSE 0]

\* Mutant of ParMapClosure: the match on res is dropped, f runs for every entry.
ParMapClosure_NoMatch(fn, entry) ==
    [entry |-> Entry(entry.app, fn[entry.app]), called |-> 1]

\* The closure of par_map (mod.rs:161-166), a textual duplicate of map's.
ParMapClosure(fn, entry) ==
    IF IsOk(entry.res)
    THEN [entry |-> Entry(entry.app, fn[entry.app]), called |-> 1]
    ELSE [entry |-> entry, called |-> 0]

\* Mutant of SortKey: the entries are ordered by the identity of the app.
SortKey_ById(entry) == entry.app.id

\* The key of sort_by_key (mod.rs:126): &app.name, ordered as strings.
SortKey(entry) == NameRank(entry.app.name)

\* One step of the stable sort: e goes behind every element of the sorted
\* prefix whose key is not greater than its own.
SortInsert(sorted, e) ==
    LET k == Cardinality({i \in 1..Len(sorted) : SortKey(sorted[i]) <= SortKey(e)})
    IN  SubSeq(sorted, 1, k) \o <<e>> \o SubSeq(sorted, k + 1, Len(sorted))

\* Vec::sort_by_key, a stable sort, on the name of the application.
RECURSIVE SortByKey(_)
SortByKey(rs) ==
    IF rs = <<>> THEN <<>>
    ELSE SortInsert(SortByKey(SubSeq(rs, 1, Len(rs) - 1)), rs[Len(rs)])

\* Mutant of AppendResults: the entries are concatenated and left unsorted.
AppendResults_NoSort(self, other_results) == self \o other_results

\* Mutant of AppendResults: the absorbed ledger replaces this one.
AppendResults_Overwrite(self, other_results) == SortByKey(other_results)

\* BatchBuildResults::append: what self.results holds afterwards.
AppendResults(self, other_results) == SortByKey(self \o other_results)

\* The grouping map with no keys.
EmptyMap == [bs \in {} |-> <<>>]

\* Mutant of GroupPush: the app lands under the LFC key whatever its kind.
GroupPush_OneKey(map, app) ==
    [bs \in DOMAIN map \cup {"LFC"} |->
        IF bs = "LFC"
        THEN Append(IF bs \in DOMAIN map THEN map[bs] ELSE <<>>, app)
        ELSE map[bs]]

\* by_build_system.entry(app.build_system()).or_default().push(app)
GroupPush(map, app) ==
    [bs \in DOMAIN map \cup {app.build_system} |->
        IF bs = app.build_system
        THEN Append(IF bs \in DOMAIN map THEN map[bs] ELSE <<>>, app)
        ELSE map[bs]]

\* The grouping loop of execute_command (mod.rs:14-20).
RECURSIVE GroupByBuildSystem(_)
GroupByBuildSystem(apps) ==
    IF apps = <<>> THEN EmptyMap
    ELSE GroupPush(GroupByBuildSystem(SubSeq(apps, 1, Len(apps) - 1)), apps[Len(apps)])

\* What a backend reports for one application: success, or the failure of
\* its external tool.
BackendOutcomes == {Ok, Err("missing source")}

\* A backend's execute_command, as the dispatcher relies on it: a ledger for
\* exactly the applications of the command, in their order, each with the
\* outcome the backend reaches for it.
BackendExecute(cmd, outcome) == Map(outcome, new_results(cmd)).results

\* The text print_results writes for one entry (mod.rs:111-118), cut at the
\* places where the format string takes its arguments.
PrintLine(entry) ==
    IF IsOk(entry.res)
    THEN <<"- ", entry.app.name, ": Success">>
    ELSE <<"- ", entry.app.name, ": Error: ", entry.res.e>>

\* BatchBuildResults::print_results: one println! per entry, in ledger order.
print_results(rs) == [i \in 1..Len(rs) |-> PrintLine(rs[i])]

\* Mutant of SplitAt: the entry at the midpoint falls between the two halves.
SplitAt_Gap(lo, hi) ==
    LET mid == lo + ((hi - lo) \div 2)
    IN  <<[lo |-> lo, hi |-> mid], [lo |-> mid + 1, hi |-> hi]>>

\* Mutant of SplitAt: the two halves share the entry at the midpoint.
SplitAt_Overlap(lo, hi) ==
    LET mid == lo + ((hi - lo) \div 2)
    IN  <<[lo |-> lo, hi |-> mid + 1], [lo |-> mid, hi |-> hi]>>

\* par_iter_mut: a slice [lo, hi) is split at its midpoint into two disjoint
\* mutable halves, each handed to its own task.
SplitAt(lo, hi) ==
    LET mid == lo + ((hi - lo) \div 2)
    IN  <<[lo |-> lo, hi |-> mid], [lo |-> mid, hi |-> hi]>>

\* A task of par_map over entries lo..hi-1: cur is the next entry it visits,
\* st tells whether it is inside a call of f, ret is the entry it will store.
Task(lo, hi) == [lo |-> lo, hi |-> hi, cur |-> lo, st |-> "idle", ret |-> Ok]

TaskId(t) == <<t.lo, t.hi>>

\* ------------------------------------------------- the LFC backend (lfc.rs)
\* The directories clean removes, in the order of lfc.rs:45-50.
ArtifactDirs == <<"bin", "include", "src-gen", "lib64", "share", "build">>

ArtifactDirSet == {ArtifactDirs[i] : i \in 1..Len(ArtifactDirs)}

\* How a run of the external compiler can end.
RunOutcomes == {"ok", "nonzero", "failed to start"}

\* fs::remove_dir_all(d).is_ok(): Err when d does not exist or cannot be
\* removed, otherwise d is gone.
RemoveDirAll(d, existing, unremovable) ==
    IF d \in existing /\ d \notin unremovable
    THEN [ok |-> TRUE, dirs |-> existing \ {d}]
    ELSE [ok |-> FALSE, dirs |-> existing]

\* The && chain of clean from its i-th operand on: the operand to the right
\* of a false one is not evaluated.
RECURSIVE CleanChain(_, _, _)
CleanChain(i, existing, unremovable) ==
    IF i > Len(ArtifactDirs) THEN [ok |-> TRUE, dirs |-> existing]
    ELSE LET r == RemoveDirAll(ArtifactDirs[i], existing, unremovable)
         IN  IF r.ok THEN CleanChain(i + 1, r.dirs, unremovable)
             ELSE [ok |-> FALSE, dirs |-> r.dirs]

\* LFC::clean (lfc.rs:42-51): its return value and the directories left.
Clean(existing, unremovable) == CleanChain(1, existing, unremovable)

\* build_lambda (lfc.rs:24-31): run_and_capture(&mut command).is_ok().
BuildLambda(run) == run = "ok"

\* LFC::build (lfc.rs:21-36): the lambda is called as a statement, its value
\* dropped, and the function ends with the literal true.
Build(run) == LET unused == BuildLambda(run) IN TRUE

\* LFC::update (lfc.rs:38-40)
Update == TRUE

\* ------------------------------------------------------------------ state
VARIABLES
    command,      \* the BatchLingoCommand of the invocation
    results,      \* self.results of the ledger being transformed
    pc,           \* "ready": between stages; "par": inside par_map
    kind,         \* the last stage started: "none", "map" or "par_map"
    f,            \* the transform of the last stage started
    tasks,        \* the tasks of the running par_map
    start,        \* history: the ledger when the last stage started
    invoked,      \* history: per entry, calls of f in the last stage
    touched,      \* history: per entry, the tasks of the running par_map that read or wrote it
    prior,        \* history: per app, its first failure before the last stage
    first_fail,   \* history: per app, the first failure any transform returned
    other,        \* the ledger handed to append
    absorbed,     \* history: the ledger last handed to append, as it was
    by_build_system, \* execute_command: the grouping HashMap
    result,       \* execute_command: the ledger it accumulates and returns
    epc,          \* execute_command: where it is
    sub_res,      \* history: per dispatched kind, the ledger its backend returned
    order,        \* history: the kinds in the order the loop took them
    sub_command,  \* history: per dispatched kind, the command its backend was called with
    stdout,       \* the lines print_results has written
    dirs,         \* LFC backend: the artifact directories that exist in the working directory
    locked,       \* LFC backend: the directories the process cannot remove
    lfc_op,       \* LFC backend: the last operation called, "none" before any
    lfc_ret,      \* LFC backend: what that operation returned
    lfc_run       \* LFC backend: how the last run of the external compiler ended

stageVars == <<pc, kind, f, tasks, start, invoked, touched, prior, first_fail>>

dispatchVars == <<by_build_system, result, epc, sub_res, order, sub_command, stdout>>

lfcVars == <<dirs, locked, lfc_op, lfc_ret, lfc_run>>

vars == <<command, results, pc, kind, f, tasks, start, invoked, touched,
          prior, first_fail, other, absorbed, by_build_system, result, epc,
          sub_res, order, sub_command, stdout, dirs, locked, lfc_op, lfc_ret,
          lfc_run>>

\* The LFC backend of lfc.rs is not in use.
NoLfc ==
    /\ dirs = {}
    /\ locked = {}
    /\ lfc_op = "none"
    /\ lfc_ret = TRUE
    /\ lfc_run = "none"

\* execute_command is not running.
NoDispatch ==
    /\ by_build_system = EmptyMap
    /\ result = New
    /\ epc = "none"
    /\ sub_res = EmptyMap
    /\ order = <<>>
    /\ sub_command = EmptyMap
    /\ stdout = <<>>

\* No ledger is being appended.
NoAppend ==
    /\ other = New
    /\ absorbed = New

\* The transforms a stage can be given over the ledger's applications.
Transforms(rs) == [AppsOf(rs) -> BuildResult]

\* The stage machinery at rest around a ledger rs.
StageIdle(rs) ==
    /\ pc = "ready"
    /\ kind = "none"
    /\ f = [a \in AppsOf(rs) |-> Ok]
    /\ tasks = {}
    /\ start = rs
    /\ invoked = [i \in 1..Len(rs) |-> 0]
    /\ touched = [i \in 1..Len(rs) |-> {}]
    /\ prior = [a \in AppsOf(rs) |-> Ok]
    /\ first_fail = [a \in AppsOf(rs) |-> Ok]

\* A backend starts from the pre-seeded ledger of its command (new_results).
InitStage ==
    /\ command \in {[apps |-> apps, task |-> [op |-> "Build", profile |-> "Release"]] :
                        apps \in LfcAppLists}
    /\ results = new_results(command)
    /\ StageIdle(results)
    /\ NoLfc
    /\ NoAppend
    /\ NoDispatch

\* What every stage start records about the stage.
BeginStage(fn, k) ==
    /\ pc = "ready"
    /\ kind' = k
    /\ f' = fn
    /\ start' = results
    /\ prior' = first_fail
    /\ first_fail' = [a \in DOMAIN first_fail |->
                        IF IsOk(first_fail[a]) THEN fn[a] ELSE first_fail[a]]
    /\ UNCHANGED <<command, lfcVars, other, absorbed, dispatchVars>>

\* results.map(fn): sequential, runs to completion.
MapStage ==
    \E fn \in Transforms(results) :
        /\ BeginStage(fn, "map")
        /\ results' = Map(fn, results).results
        /\ invoked' = Map(fn, results).calls
        /\ touched' = [i \in 1..Len(results) |-> {}]
        /\ UNCHANGED <<pc, tasks>>

\* results.par_map(fn): hand the whole slice to the pool.
ParMapStart ==
    \E fn \in Transforms(results) :
        /\ BeginStage(fn, "par_map")
        /\ pc' = "par"
        /\ tasks' = {Task(1, Len(results) + 1)}
        /\ invoked' = [i \in 1..Len(results) |-> 0]
        /\ touched' = [i \in 1..Len(results) |-> {}]
        /\ UNCHANGED results

\* A task that has not started on its slice splits it in two.
ParSplit ==
    \E t \in tasks :
        /\ pc = "par"
        /\ t.cur = t.lo /\ t.st = "idle" /\ t.hi - t.lo >= 2
        /\ LET halves == SplitAt(t.lo, t.hi)
           IN  tasks' = (tasks \ {t}) \cup
                        {Task(halves[1].lo, halves[1].hi),
                         Task(halves[2].lo, halves[2].hi)}
        /\ UNCHANGED <<command, lfcVars, results, pc, kind, f, start, invoked,
                       touched, prior, first_fail, other, absorbed, dispatchVars>>

\* A task visits its next entry: it matches on res and, for Ok(()), calls f.
ParBegin ==
    \E t \in tasks :
        /\ pc = "par"
        /\ t.st = "idle" /\ t.cur < t.hi
        /\ LET c == ParMapClosure(f, results[t.cur])
           IN  /\ tasks' = (tasks \ {t}) \cup
                     {IF c.called = 1
                      THEN [t EXCEPT !.st = "calling", !.ret = c.entry.res]
                      ELSE [t EXCEPT !.cur = t.cur + 1]}
               /\ invoked' = [invoked EXCEPT ![t.cur] = @ + c.called]
        /\ touched' = [touched EXCEPT ![t.cur] = @ \cup {TaskId(t)}]
        /\ UNCHANGED <<command, lfcVars, results, pc, kind, f, start, prior, first_fail,
                       other, absorbed, dispatchVars>>

\* The call of f returns and the task stores the result: *res = f(app).
ParEnd ==
    \E t \in tasks :
        /\ pc = "par"
        /\ t.st = "calling"
        /\ results' = [results EXCEPT ![t.cur].res = t.ret]
        /\ tasks' = (tasks \ {t}) \cup
                    {[t EXCEPT !.st = "idle", !.cur = t.cur + 1, !.ret = Ok]}
        /\ touched' = [touched EXCEPT ![t.cur] = @ \cup {TaskId(t)}]
        /\ UNCHANGED <<command, lfcVars, pc, kind, f, start, invoked, prior, first_fail,
                       other, absorbed, dispatchVars>>

\* for_each returns once every task has finished its slice; par_map returns self.
ParJoin ==
    /\ pc = "par"
    /\ \A t \in tasks : t.st = "idle" /\ t.cur = t.hi
    /\ pc' = "ready"
    /\ tasks' = {}
    /\ touched' = [i \in 1..Len(results) |-> {}]
    /\ UNCHANGED <<command, lfcVars, results, kind, f, start, invoked, prior, first_fail,
                   other, absorbed, dispatchVars>>

NextStage == MapStage \/ ParMapStart \/ ParSplit \/ ParBegin \/ ParEnd \/ ParJoin

SpecStage == InitStage /\ [][NextStage]_vars

\* ---------------------------------------------------------------- append
\* Two ledgers over disjoint sets of applications: the first k and the
\* remaining n - k of n distinct applications, with any names and outcomes.
InitAppend ==
    \E n \in 0..MaxApps :
        \E names \in [1..n -> NameSet], outcome \in [1..n -> BuildResult], k \in 0..n :
            LET app(i) == App(i, names[i], IF i <= k THEN "LFC" ELSE "CMake")
                all == [i \in 1..n |-> Entry(app(i), outcome[i])]
            IN  /\ command = [apps |-> [i \in 1..n |-> app(i)],
                              task |-> [op |-> "Build", profile |-> "Release"]]
                /\ results = SubSeq(all, 1, k)
                /\ other = SubSeq(all, k + 1, n)
                /\ absorbed = New
                /\ StageIdle(results)
                /\ NoLfc
                /\ NoDispatch

\* self.append(other): Vec::append moves every entry of other.results to the
\* end of self.results and leaves other empty; then the stable sort by name.
AppendStep ==
    /\ pc = "ready"
    /\ results' = AppendResults(results, other)
    /\ other' = New
    /\ absorbed' = other
    /\ pc' = "appended"
    /\ UNCHANGED <<command, lfcVars, kind, f, tasks, start, invoked, touched, prior,
                   first_fail, dispatchVars>>

NextAppend == AppendStep

SpecAppend == InitAppend /\ [][NextAppend]_vars

\* ------------------------------------------------------- execute_command
\* The caller hands execute_command a batch over distinct applications.
InitExec ==
    /\ command \in {[apps |-> apps, task |-> t] : apps \in AppLists, t \in CommandSpec}
    /\ by_build_system = EmptyMap
    /\ result = New
    /\ epc = "start"
    /\ sub_res = EmptyMap
    /\ order = <<>>
    /\ sub_command = EmptyMap
    /\ stdout = <<>>
    /\ results = New
    /\ StageIdle(results)
    /\ NoLfc
    /\ NoAppend

\* Mutant of Remaining: the loop passes over the Cargo partition in silence.
Remaining_SkipsCargo ==
    (DOMAIN by_build_system \ {order[i] : i \in 1..Len(order)}) \ {"Cargo"}

\* The kinds the loop over by_build_system has not yet taken.
Remaining == DOMAIN by_build_system \ {order[i] : i \in 1..Len(order)}

\* mod.rs:14-22: group the apps by build system, start with an empty ledger.
ExecGroup ==
    /\ epc = "start"
    /\ by_build_system' = GroupByBuildSystem(command.apps)
    /\ result' = New
    /\ epc' = "loop"
    /\ UNCHANGED <<command, lfcVars, results, stageVars, other, absorbed, sub_res,
                   order, sub_command, stdout>>

\* mod.rs:23-31 for an implemented kind: the HashMap yields its pairs in an
\* order of its own; the backend of the kind runs the re-scoped command and
\* its ledger is absorbed into result.
ExecDispatch ==
    \E bs \in Remaining :
        /\ epc = "loop"
        /\ bs \in {"LFC", "CMake"}
        /\ LET cmd == with_apps(command, by_build_system[bs])
           IN  \E outcome \in [{cmd.apps[i] : i \in 1..Len(cmd.apps)} -> BackendOutcomes] :
                  LET sub == BackendExecute(cmd, outcome)
                  IN  /\ result' = AppendResults(result, sub)
                      /\ absorbed' = sub
                      /\ sub_res' = [k \in DOMAIN sub_res \cup {bs} |->
                                        IF k = bs THEN sub ELSE sub_res[k]]
                      /\ sub_command' = [k \in DOMAIN sub_command \cup {bs} |->
                                            IF k = bs THEN cmd ELSE sub_command[k]]
        /\ order' = Append(order, bs)
        /\ UNCHANGED <<command, lfcVars, results, stageVars, other, by_build_system,
                       epc, stdout>>

\* mod.rs:28: the Cargo arm is todo!(), which panics: execute_command
\* unwinds and returns nothing.
ExecTodo ==
    /\ epc = "loop"
    /\ "Cargo" \in Remaining
    /\ epc' = "panicked"
    /\ order' = Append(order, "Cargo")
    /\ UNCHANGED <<command, lfcVars, results, stageVars, other, absorbed,
                   by_build_system, result, sub_res, sub_command, stdout>>

\* mod.rs:32: the loop is over, result is returned to the caller.
ExecReturn ==
    /\ epc = "loop"
    /\ Remaining = {}
    /\ epc' = "returned"
    /\ UNCHANGED <<command, lfcVars, results, stageVars, other, absorbed,
                   by_build_system, result, sub_res, order, sub_command, stdout>>

\* The caller prints the ledger it got back.
PrintResults ==
    /\ epc = "returned"
    /\ stdout' = print_results(result)
    /\ epc' = "printed"
    /\ UNCHANGED <<command, lfcVars, results, stageVars, other, absorbed,
                   by_build_system, result, sub_res, order, sub_command>>

NextExec == ExecGroup \/ ExecDispatch \/ ExecTodo \/ ExecReturn \/ PrintResults

SpecExec == InitExec /\ [][NextExec]_vars

\* ------------------------------------------------ the LFC backend at work
\* A working directory with any of the artifact directories, some of which
\* the process may be unable to remove.
InitLfc ==
    /\ dirs \in SUBSET ArtifactDirSet
    /\ locked \in SUBSET ArtifactDirSet
    /\ lfc_op = "none"
    /\ lfc_ret = TRUE
    /\ lfc_run = "none"
    /\ command = [apps |-> <<App(1, "a", "LFC")>>, task |-> [op |-> "Clean"]]
    /\ results = New
    /\ StageIdle(results)
    /\ NoAppend
    /\ NoDispatch

lfcFrame ==
    UNCHANGED <<command, results, stageVars, other, absorbed, dispatchVars>>

\* LFC::build: the external compiler runs (unless it fails to start) and may
\* leave artifact directories behind.
LfcBuild ==
    \E run \in RunOutcomes, created \in SUBSET ArtifactDirSet :
        /\ dirs' = IF run = "failed to start" THEN dirs ELSE dirs \cup created
        /\ lfc_run' = run
        /\ lfc_ret' = Build(run)
        /\ lfc_op' = "build"
        /\ UNCHANGED locked
        /\ lfcFrame

\* LFC::update
LfcUpdate ==
    /\ lfc_ret' = Update
    /\ lfc_op' = "update"
    /\ UNCHANGED <<dirs, locked, lfc_run>>
    /\ lfcFrame

\* LFC::clean
LfcClean ==
    /\ dirs' = Clean(dirs, locked).dirs
    /\ lfc_ret' = Clean(dirs, locked).ok
    /\ lfc_op' = "clean"
    /\ UNCHANGED <<locked, lfc_run>>
    /\ lfcFrame

NextLfc == LfcBuild \/ LfcUpdate \/ LfcClean

SpecLfc == InitLfc /\ [][NextLfc]_vars

\* ------------------------------------ execute_command with staged backends
\* Batches of distinct applications of any kinds, named a, b, c, a, ...
KindAppLists ==
    UNION {{[i \in 1..n |-> App(i, Names[((i - 1) % Len(Names)) + 1], ks[i])] :
               ks \in [1..n -> BuildSystem]} : n \in 0..MaxApps}

InitBatch ==
    /\ command \in {[apps |-> apps, task |-> [op |-> "Build", profile |-> "Release"]] :
                        apps \in KindAppLists}
    /\ by_build_system = EmptyMap
    /\ result = New
    /\ epc = "start"
    /\ sub_res = EmptyMap
    /\ order = <<>>
    /\ sub_command = EmptyMap
    /\ stdout = <<>>
    /\ results = New
    /\ StageIdle(results)
    /\ NoLfc
    /\ NoAppend

\* The kind whose backend is running.
Current == order[Len(order)]

\* mod.rs:24-27: the loop takes an implemented kind and calls its backend with
\* the re-scoped command; the backend starts from command.new_results().
BackendBegin ==
    \E bs \in Remaining :
        /\ epc = "loop"
        /\ bs \in {"LFC", "CMake"}
        /\ order' = Append(order, bs)
        /\ epc' = "backend"
        /\ LET cmd == with_apps(command, by_build_system[bs])
               rs == new_results(cmd)
           IN  /\ sub_command' = [k \in DOMAIN sub_command \cup {bs} |->
                                     IF k = bs THEN cmd ELSE sub_command[k]]
               /\ results' = rs
               /\ pc' = "ready"
               /\ kind' = "none"
               /\ f' = [a \in AppsOf(rs) |-> Ok]
               /\ tasks' = {}
               /\ start' = rs
               /\ invoked' = [i \in 1..Len(rs) |-> 0]
               /\ touched' = [i \in 1..Len(rs) |-> {}]
               /\ prior' = [a \in AppsOf(rs) |-> Ok]
               /\ first_fail' = [a \in AppsOf(rs) |-> Ok]
        /\ UNCHANGED <<command, lfcVars, other, absorbed, by_build_system, result,
                       sub_res, stdout>>

\* The backend feeds its ledger through a sequential stage.
BackendMap ==
    /\ epc = "backend"
    /\ MapStage
    /\ f' \in [AppsOf(results) -> BackendOutcomes]

\* The backend feeds its ledger through a parallel stage.
BackendParMap ==
    /\ epc = "backend"
    /\ ParMapStart
    /\ f' \in [AppsOf(results) -> BackendOutcomes]

\* mod.rs:30: the backend returns its ledger and result absorbs it.
BackendEnd ==
    /\ epc = "backend"
    /\ pc = "ready"
    /\ result' = AppendResults(result, results)
    /\ absorbed' = results
    /\ sub_res' = [k \in DOMAIN sub_res \cup {Current} |->
                      IF k = Current THEN results ELSE sub_res[k]]
    /\ epc' = "loop"
    /\ results' = New
    /\ kind' = "none"
    /\ f' = [a \in {} |-> Ok]
    /\ start' = New
    /\ invoked' = <<>>
    /\ touched' = <<>>
    /\ prior' = [a \in {} |-> Ok]
    /\ first_fail' = [a \in {} |-> Ok]
    /\ UNCHANGED <<command, lfcVars, pc, tasks, other, by_build_system, order,
                   sub_command, stdout>>

NextBatch ==
    \/ ExecGroup
    \/ BackendBegin
    \/ BackendMap
    \/ BackendParMap
    \/ ParSplit
    \/ ParBegin
    \/ ParEnd
    \/ ParJoin
    \/ BackendEnd
    \/ ExecTodo
    \/ ExecReturn
    \/ PrintResults

SpecBatch == InitBatch /\ [][NextBatch]_vars

\* ------------------------------------------------- properties of the stages
\* C1: in one map stage and in one par_map stage, an entry that records a
\* failure when the stage starts never has f called for its application and
\* keeps its outcome, error message included, throughout and after the stage.
C1_FailedEntriesUntouched ==
    \A i \in 1..Len(start) :
        ~IsOk(start[i].res) => invoked[i] = 0 /\ results[i] = start[i]

\* A par_map stage has finished on a ledger holding a failed entry for which
\* f would have returned something else, next to an entry f was called for.
C1_Witness ==
    /\ pc = "ready" /\ kind = "par_map"
    /\ \E i, j \in 1..Len(start) :
          /\ ~IsOk(start[i].res) /\ f[start[i].app] /= start[i].res
          /\ ~IsOk(f[start[i].app])
          /\ IsOk(start[j].res) /\ invoked[j] = 1

\* C2: after map(f), every entry that recorded success when the stage started
\* holds exactly what f returned for its application.
C2_MapStoresTransformResult ==
    (pc = "ready" /\ kind = "map") =>
        \A i \in 1..Len(start) :
            IsOk(start[i].res) => results[i] = Entry(start[i].app, f[start[i].app])

\* map has run over two successful entries, f failing for one of them only.
C2_Witness ==
    /\ pc = "ready" /\ kind = "map"
    /\ \E i, j \in 1..Len(start) :
          /\ IsOk(start[i].res) /\ ~IsOk(f[start[i].app])
          /\ IsOk(start[j].res) /\ IsOk(f[start[j].app])

\* C3: whatever the interleaving of its tasks, par_map(f) ends in the ledger
\* that the sequential map(f) computes from the same starting ledger.
C3_ParMapEqualsMap ==
    (pc = "ready" /\ kind = "par_map") => results = Map(f, start).results

\* par_map has finished on a ledger with an earlier failure and two successful
\* entries, f failing for one of the two.
C3_Witness ==
    /\ pc = "ready" /\ kind = "par_map"
    /\ \E i, j, k \in 1..Len(start) :
          /\ invoked[i] = 1 /\ invoked[j] = 1
          /\ IsOk(start[i].res) /\ ~IsOk(f[start[i].app])
          /\ IsOk(start[j].res) /\ IsOk(f[start[j].app])
          /\ ~IsOk(start[k].res)

\* C4: during par_map every entry is read and written by at most one task,
\* the one whose slice holds it, and the slices of the tasks never overlap.
C4_EntriesOwnedByOneTask ==
    /\ \A i \in 1..Len(results) :
          /\ Cardinality(touched[i]) <= 1
          /\ \A id \in touched[i] : id[1] <= i /\ i < id[2]
    /\ \A t1, t2 \in tasks :
          t1 /= t2 => (t1.hi <= t2.lo \/ t2.hi <= t1.lo)

\* Two tasks are inside calls of f at the same time.
C4_Witness ==
    /\ pc = "par"
    /\ \E t1, t2 \in tasks :
          t1 /= t2 /\ t1.st = "calling" /\ t2.st = "calling"

\* C5: starting from the pre-seeded ledger, after any sequence of stages each
\* application holds the failure of the first stage whose transform failed
\* for it (success if none did), and no stage calls its transform for an
\* application that failed in an earlier stage.
C5_FirstFailureWins ==
    /\ pc = "ready" =>
          \A i \in 1..Len(results) : results[i].res = first_fail[results[i].app]
    /\ \A i \in 1..Len(start) : ~IsOk(prior[start[i].app]) => invoked[i] = 0

\* A later stage whose transform fails with another message for an
\* application that already failed, and fails for the first time for another.
C5_Witness ==
    /\ pc = "ready" /\ kind /= "none"
    /\ \E i, j \in 1..Len(start) :
          /\ ~IsOk(prior[start[i].app]) /\ ~IsOk(f[start[i].app])
          /\ f[start[i].app] /= prior[start[i].app]
          /\ IsOk(prior[start[j].app]) /\ ~IsOk(f[start[j].app])

\* ------------------------------------------ properties of append, dispatch
\* How often entry e occurs in ledger rs.
Count(rs, e) == Cardinality({i \in 1..Len(rs) : rs[i] = e})

\* How many entries of ledger rs refer to application a.
EntriesFor(rs, a) == Cardinality({i \in 1..Len(rs) : rs[i].app = a})

Range(rs) == {rs[i] : i \in 1..Len(rs)}

\* The names along ledger rs never decrease.
NameOrdered(rs) ==
    \A i, j \in 1..Len(rs) :
        i < j => NameRank(rs[i].app.name) <= NameRank(rs[j].app.name)

\* C6: for ledgers L1, L2 over disjoint application sets, L1.append(L2) leaves
\* in L1 exactly the entries of L1 and of L2, each once and with its outcome,
\* in nondecreasing order of application name.
C6_AppendIsSortedUnion ==
    pc = "appended" =>
        /\ \A e \in Range(start) \cup Range(absorbed) \cup Range(results) :
              Count(results, e) = Count(start, e) + Count(absorbed, e)
        /\ Len(results) = Len(start) + Len(absorbed)
        /\ NameOrdered(results)

\* append has absorbed a ledger holding a name smaller than one of its own, so
\* that the sort had to move entries, failures among them.
C6_Witness ==
    /\ pc = "appended"
    /\ \E i \in 1..Len(start), j \in 1..Len(absorbed) :
          /\ NameRank(start[i].app.name) > NameRank(absorbed[j].app.name)
          /\ ~IsOk(start[i].res)
    /\ results /= start \o absorbed

\* C7: for a batch of LFC and CMake applications, with backends that return a
\* ledger for exactly their partition, the ledger execute_command returns has
\* one entry for every application of the batch and none for any other.
C7_OneEntryPerApplication ==
    epc \in {"returned", "printed"} =>
        /\ \A i \in 1..Len(command.apps) : EntriesFor(result, command.apps[i]) = 1
        /\ AppsOf(result) \subseteq {command.apps[i] : i \in 1..Len(command.apps)}

\* execute_command has returned for a batch a: LFC, b: CMake, c: LFC.
C7_Witness ==
    /\ epc = "returned"
    /\ Len(command.apps) = 3
    /\ command.apps[1].build_system = "LFC"
    /\ command.apps[2].build_system = "CMake"
    /\ command.apps[3].build_system = "LFC"
    /\ \E i \in 1..Len(result) : ~IsOk(result[i].res)

\* C8: the grouping step partitions the application list by kind: every
\* application is in exactly one partition, every member of a partition has
\* the partition's kind, and no partition the loop will dispatch is empty.
C8_GroupingIsPartition ==
    epc /= "start" =>
        /\ \A i \in 1..Len(command.apps) :
              Cardinality({<<bs, j>> \in BuildSystem \X (1..Len(command.apps)) :
                              /\ bs \in DOMAIN by_build_system
                              /\ j <= Len(by_build_system[bs])
                              /\ by_build_system[bs][j] = command.apps[i]}) = 1
        /\ \A bs \in DOMAIN by_build_system :
              /\ by_build_system[bs] /= <<>>
              /\ \A j \in 1..Len(by_build_system[bs]) :
                    /\ by_build_system[bs][j].build_system = bs
                    /\ \E i \in 1..Len(command.apps) :
                          command.apps[i] = by_build_system[bs][j]

\* The grouping has produced at least two partitions, one of them holding two
\* applications.
C8_Witness ==
    /\ epc = "loop"
    /\ Cardinality(DOMAIN by_build_system) >= 2
    /\ \E bs \in DOMAIN by_build_system : Len(by_build_system[bs]) >= 2

\* The orders in which the loop can take the keys of the grouping map.
DispatchOrders ==
    LET keys == DOMAIN by_build_system
        n == Cardinality(keys)
    IN  {o \in [1..n -> keys] : \A i, j \in 1..n : o[i] = o[j] => i = j}

\* The ledger the loop builds when it takes the partitions in order o and
\* each backend returns what it returned in this run.
RECURSIVE MergedInOrder(_)
MergedInOrder(o) ==
    IF o = <<>> THEN New
    ELSE AppendResults(MergedInOrder(SubSeq(o, 1, Len(o) - 1)), sub_res[o[Len(o)]])

\* C9: with the batch and the backends' ledgers fixed, execute_command returns
\* the same sequence of entries whatever the order in which the partitions
\* are taken.
C9_OrderInsensitive ==
    epc = "returned" => \A o \in DispatchOrders : MergedInOrder(o) = result

\* Same-named applications of the batch are of one kind, so no two partitions
\* hold entries with equal sort keys.
NamesSplitByKind ==
    \A i, j \in 1..Len(command.apps) :
        command.apps[i].name = command.apps[j].name =>
            command.apps[i].build_system = command.apps[j].build_system

\* The order of the partitions shows only through equal sort keys: where
\* NamesSplitByKind holds the returned ledger is the same for every order.
OrderInsensitiveOnSplitNames ==
    (epc = "returned" /\ NamesSplitByKind) =>
        \A o \in DispatchOrders : MergedInOrder(o) = result

\* C10: the ledger execute_command returns is in nondecreasing order of name,
\* and print_results writes one line per application, in that order, reading
\* '- <name>: Success' or '- <name>: Error: <message>'.
C10_ReportOrderedByName ==
    /\ epc \in {"returned", "printed"} => NameOrdered(result)
    /\ epc = "printed" =>
          /\ Len(stdout) = Len(command.apps)
          /\ \A i \in 1..Len(command.apps) :
                \E j \in 1..Len(stdout) :
                    /\ result[j].app = command.apps[i]
                    /\ \A k \in 1..Len(stdout) : result[k].app = command.apps[i] => k = j
          /\ \A j \in 1..Len(stdout) :
                /\ stdout[j][1] = "- "
                /\ stdout[j][2] = result[j].app.name
                /\ IsOk(result[j].res) => Len(stdout[j]) = 3 /\ stdout[j][3] = ": Success"
                /\ ~IsOk(result[j].res) =>
                      /\ Len(stdout[j]) = 4
                      /\ stdout[j][3] = ": Error: "
                      /\ stdout[j][4] = result[j].res.e
          /\ \A j, k \in 1..Len(stdout) :
                j < k => NameRank(stdout[j][2]) <= NameRank(stdout[k][2])

\* The report of a batch c, b, a of two kinds has been printed, with a
\* success line and an error line.
C10_Witness ==
    /\ epc = "printed"
    /\ Len(command.apps) = 3
    /\ NameRank(command.apps[1].name) > NameRank(command.apps[2].name)
    /\ NameRank(command.apps[2].name) > NameRank(command.apps[3].name)
    /\ command.apps[1].build_system /= command.apps[2].build_system
    /\ \E j, k \in 1..Len(stdout) : Len(stdout[j]) = 3 /\ Len(stdout[k]) = 4

\* ------------------------------------------- properties of the Cargo route
\* The batch holds an application of the kind that has no backend.
HasCargo == \E i \in 1..Len(command.apps) : command.apps[i].build_system = "Cargo"

\* C11: when the batch holds a Cargo application, execute_command aborts the
\* invocation: it never returns a ledger, so the caller gets no entry for any
\* application and prints nothing, in whatever order the partitions are taken.
C11_CargoAbortsWithoutLedger ==
    HasCargo => epc \notin {"returned", "printed"} /\ stdout = <<>>

\* The invocation has panicked on the Cargo partition after the backend of
\* another partition had completed and its successes had been merged.
C11_Witness ==
    /\ epc = "panicked"
    /\ Len(order) >= 2
    /\ \E i \in 1..Len(result) : IsOk(result[i].res)

\* C12: when the batch holds a Cargo application, execute_command fails before
\* any dispatch: no LFC or CMake backend has been invoked when it aborts, in
\* whatever order the partitions are taken.
C12_NoBackendRunsBeforeAbort ==
    HasCargo => sub_res = EmptyMap

\* ------------------------------------ properties of the staged invocation
\* C13: a failure f returns for one application aborts neither the stage nor
\* the batch: when a map or par_map stage is over, f has been called for every
\* entry that recorded success at its start and each of them holds what f
\* returned for it; and when execute_command returns, every partition has
\* been dispatched and its ledger merged, failures included.
C13_FailuresDoNotAbortSiblings ==
    /\ (epc = "backend" /\ pc = "ready" /\ kind /= "none") =>
          \A i \in 1..Len(start) :
              IsOk(start[i].res) =>
                  invoked[i] = 1 /\ results[i] = Entry(start[i].app, f[start[i].app])
    /\ epc = "returned" =>
          /\ DOMAIN sub_res = DOMAIN by_build_system
          /\ \A bs \in DOMAIN sub_res :
                \A j \in 1..Len(sub_res[bs]) :
                    \E k \in 1..Len(result) : result[k] = sub_res[bs][j]

\* A first partition has come back with a failure; the backend of the second
\* has finished a stage in which f failed for one entry and succeeded for the
\* entry behind it.
C13_Witness ==
    /\ epc = "backend" /\ pc = "ready" /\ kind /= "none"
    /\ \E k \in 1..Len(result) : ~IsOk(result[k].res)
    /\ \E i, j \in 1..Len(start) :
          /\ i < j
          /\ IsOk(start[i].res) /\ ~IsOk(f[start[i].app])
          /\ IsOk(start[j].res) /\ IsOk(results[j].res) /\ invoked[j] = 1

\* C17: new_results on a command with application list S gives a ledger with
\* one entry per element of S, in the order of S, each recording success; the
\* empty constructor gives a ledger without entries.
C17_NewResultsSeedsSuccess ==
    /\ (epc = "backend" /\ kind = "none") =>
          LET S == by_build_system[Current]
          IN  /\ Len(results) = Len(S)
              /\ \A i \in 1..Len(S) : results[i].app = S[i] /\ results[i].res = Ok
    /\ (epc = "loop" /\ order = <<>>) => Len(result) = 0

\* A backend holds the fresh ledger of a partition of two applications, while
\* the batch holds an application of another kind.
C17_Witness ==
    /\ epc = "backend" /\ kind = "none"
    /\ Len(results) = 2
    /\ results[1].app.id < results[2].app.id
    /\ Len(command.apps) = 3

\* ------------------------------------------- properties of the LFC backend
\* C14: clean is best-effort and idempotent: whatever subset of the artifact
\* directories exists beforehand, the empty one included, clean reports
\* success, so also without a prior build and right after another clean.
C14_CleanAlwaysSucceeds ==
    lfc_op = "clean" => lfc_ret = TRUE

\* C15: build reports failure whenever the run of the external compiler
\* failed (non-zero exit or no start), and success only when it succeeded.
C15_BuildReportsCompilerFailure ==
    lfc_op = "build" => (lfc_ret = TRUE <=> lfc_run = "ok")

\* C16: after clean has returned, none of the six artifact directories is
\* left, whatever subset existed before: clean goes through all of them and
\* does not stop at the first that is absent or cannot be removed (only a
\* directory that cannot be removed may remain).
C16_CleanRemovesEveryArtifact ==
    lfc_op = "clean" => dirs \subseteq locked

\* ------------------------------------------- frame and count of the stages
\* C19: map and par_map change outcomes only: during and after every stage the
\* ledger has as many entries as before, for the same applications at the
\* same positions, which are those of the command the ledger was seeded from.
C19_StagesKeepEntries ==
    /\ Len(results) = Len(start)
    /\ \A i \in 1..Len(start) : results[i].app = start[i].app
    /\ Len(results) = Len(command.apps)
    /\ \A i \in 1..Len(command.apps) : results[i].app = command.apps[i]

\* A stage has changed an outcome in a ledger of three entries whose middle
\* one had failed before.
C19_Witness ==
    /\ pc = "ready" /\ kind /= "none"
    /\ Len(start) = 3
    /\ ~IsOk(start[2].res)
    /\ results /= start

\* C20: in a map stage and in a par_map stage, under every interleaving, f is
\* never called twice for an entry, and when the stage is over it has been
\* called exactly once for every entry that recorded success at its start.
C20_TransformCalledOncePerSuccess ==
    /\ \A i \in 1..Len(start) : invoked[i] <= 1
    /\ (pc = "ready" /\ kind /= "none") =>
          \A i \in 1..Len(start) : IsOk(start[i].res) => invoked[i] = 1

\* A par_map stage is over in which f was called for the first and the last
\* of three entries and not for the failed one between them.
C20_Witness ==
    /\ pc = "ready" /\ kind = "par_map"
    /\ Len(start) = 3
    /\ invoked = <<1, 0, 1>>

\* ------------------------------------------------ properties of re-scoping
\* The applications of the batch that are of kind bs, in batch order.
OfKind(bs) == SelectSeq(command.apps, LAMBDA a : a.build_system = bs)

\* C18: every backend execute_command calls gets a command whose application
\* list is exactly the partition of its kind and whose CommandSpec is that of
\* the original command; the original command's application list and
\* CommandSpec are never changed by the re-scoping.
C18_RescopedCommand ==
    /\ [](\A bs \in DOMAIN sub_command :
              /\ sub_command[bs].apps = OfKind(bs)
              /\ sub_command[bs].task = command.task)
    /\ [][command' = command]_vars

\* The LFC and the CMake backend have both been called for a Build command,
\* one of them with two applications.
C18_Witness ==
    /\ DOMAIN sub_command = {"LFC", "CMake"}
    /\ command.task.op = "Build"
    /\ \E bs \in DOMAIN sub_command : Len(sub_command[bs].apps) = 2

====
